---------------------------- MODULE Spec2Model ----------------------------
(***************************************************************************)
(* libdragon exception handler (exception.c): the handler registry, the    *)
(* two dispatch entry points, the exception classifier and the default     *)
(* handler, as a state machine.                                            *)
(*                                                                         *)
(* Spec        the registry and the two dispatch entry points of the debug *)
(*             build; a call of exception_default_handler is taken whole   *)
(*             (its only exits are abort()).                               *)
(* SpecDefault the default handler step by step, in both builds, with      *)
(*             nested faults raised by its own steps.                      *)
(* SpecClassify __fetch_regs and __exception_dump_header applied to        *)
(*             register blocks of every exception code.                    *)
(* SpecDump    __exception_dump_gpr and __exception_dump_fpr applied to    *)
(*             register blocks of chosen bit patterns.                     *)
(* SpecDecode  __onSyscallException applied to instruction words of every *)
(*             shape, on tables that registration has filled.              *)
(***************************************************************************)
EXTENDS Integers, Sequences, FiniteSets, TLC

\* ------------------------------------------------------------------------
\* Machine arithmetic

Pow2(n) == 2 ^ n

\* A uint32_t is kept as its two 16-bit halves, so that the full 32-bit
\* range and its wrap-around are represented.
Half == Pow2(16)

Word(hi, lo) == [hi |-> hi, lo |-> lo]

\* the word of a number below 2^31
ToWord(n) == Word(n \div Half, n % Half)

\* uint32_t addition of a small number n to the word a
Add32(a, n) == Word((a.hi + ((a.lo + n) \div Half)) % Half, (a.lo + n) % Half)

RECURSIVE BitAndRec(_, _, _)
BitAndRec(a, b, n) ==
    IF n = 0 \/ a = 0 \/ b = 0 THEN 0
    ELSE (IF a % 2 = 1 /\ b % 2 = 1 THEN 1 ELSE 0)
         + 2 * BitAndRec(a \div 2, b \div 2, n - 1)

\* a & b on 32-bit words
BitAnd(a, b) == Word(BitAndRec(a.hi, b.hi, 16), BitAndRec(a.lo, b.lo, 16))

\* the test `if (w)` of a word
NonZero(w) == w.hi # 0 \/ w.lo # 0

\* w < n for a number n below 2^16
WordBelow(w, n) == w.hi = 0 /\ w.lo < n

\* ------------------------------------------------------------------------
\* Constants of the program and of its headers

MAX_SYSCALL_HANDLERS == 4

\* the largest syscall code register_syscall_handler accepts (0xFFFFF)
MAX_SYSCALL_CODE == 1048575

\* COP0 Cause: branch-delay flag (bit 31) and exception code (bits 2..6)
C0_CAUSE_BD == Word(Pow2(15), 0)

C0_GET_CAUSE_EXC_CODE(cr) == (cr.lo \div 4) % 32

\* FCR31 cause bits
C1_CAUSE_INEXACT_OP == ToWord(Pow2(12))
C1_CAUSE_UNDERFLOW == ToWord(Pow2(13))
C1_CAUSE_OVERFLOW == ToWord(Pow2(14))
C1_CAUSE_DIV_BY_0 == ToWord(Pow2(15))
C1_CAUSE_INVALID_OP == ToWord(Pow2(16))
C1_CAUSE_NOT_IMPLEMENTED == ToWord(Pow2(17))

EXCEPTION_CODE_TLB_MODIFICATION == 1
EXCEPTION_CODE_TLB_LOAD_I_MISS == 2
EXCEPTION_CODE_TLB_STORE_MISS == 3
EXCEPTION_CODE_LOAD_I_ADDRESS_ERROR == 4
EXCEPTION_CODE_STORE_ADDRESS_ERROR == 5
EXCEPTION_CODE_I_BUS_ERROR == 6
EXCEPTION_CODE_D_BUS_ERROR == 7
EXCEPTION_CODE_SYS_CALL == 8
EXCEPTION_CODE_COPROCESSOR_UNUSABLE == 11
EXCEPTION_CODE_FLOATING_POINT == 15
EXCEPTION_CODE_WATCH == 23

\* C0_GET_CAUSE_CE: the coprocessor number, bits 28..29 of Cause
C0_GET_CAUSE_CE(cr) == (cr.hi \div Pow2(12)) % 4

EXCEPTION_TYPE_CRITICAL == "EXCEPTION_TYPE_CRITICAL"
EXCEPTION_TYPE_SYSCALL == "EXCEPTION_TYPE_SYSCALL"

\* function pointers
NULL == "NULL"
exception_default_handler == "exception_default_handler"

\* ------------------------------------------------------------------------
\* Inputs of the model

\* handlers a program passes to register_exception_handler
UserHandlers == {"user_handler_1", "user_handler_2"}
ExceptionHandlerArgs == UserHandlers \cup {NULL, exception_default_handler}

\* the handler a program passes to register_syscall_handler
SyscallHandlerArgs == {"syscall_handler_1"}

\* (first_code, last_code) arguments: adjacent, overlapping, contained and
\* boundary ranges, an inverted range and bounds above 0xFFFFF
RangeArgs ==
    { <<0, 10>>, <<11, 20>>, <<5, 15>>, <<21, 21>>, <<22, MAX_SYSCALL_CODE - 1>>,
      <<MAX_SYSCALL_CODE, MAX_SYSCALL_CODE>>,
      <<10, 0>>, <<MAX_SYSCALL_CODE + 1, MAX_SYSCALL_CODE + 1>>,
      <<0, MAX_SYSCALL_CODE + 1>>, <<MAX_SYSCALL_CODE + 1, 7>> }

\* the ranges a program passes to register_syscall_handler with no handler
NullHandlerRangeArgs == { <<5, 15>>, <<MAX_SYSCALL_CODE + 1, 7>> }

\* the arguments of the calls of register_syscall_handler
RegisterSyscallArgs ==
    (SyscallHandlerArgs \X RangeArgs) \cup ({NULL} \X NullHandlerRangeArgs)

\* saved EPC values of a trap: 0x80000400, and the highest word address
\* 0xFFFFFFFC
EpcVals == {Word(32768, 1024), Word(Half - 1, Half - 4)}

\* what a user handler stores to e->regs->epc before it returns
HandlerEpcVals == {Word(Half - 1, Half - 4)}

\* the syscall instruction for a code: SPECIAL opcode, funct 0x0C
SyscallOpcode(c) == ToWord(c * 64 + 12)

\* instruction words found at the saved EPC of a syscall trap
OpcodeVals == { SyscallOpcode(c) : c \in {7, 11, 21} }
              \cup {Word(Half - 1, Half - 1)}

\* the Cause register with exception code c, bd: in a branch delay slot
Cause(c, bd) == Word(IF bd THEN Pow2(15) ELSE 0, c * 4)

\* Cause values of a syscall trap
SyscallCrVals == {Cause(EXCEPTION_CODE_SYS_CALL, FALSE), Cause(EXCEPTION_CODE_SYS_CALL, TRUE)}

\* Cause values of a critical exception
CriticalCrVals ==
    { Cause(EXCEPTION_CODE_FLOATING_POINT, FALSE),
      Cause(EXCEPTION_CODE_TLB_LOAD_I_MISS, TRUE) }

Fc31Vals == {C1_CAUSE_DIV_BY_0}

BadVAddrVals == {ToWord(64)}

\* a handler's effect on the register block: it stores epc to
\* e->regs->epc, or leaves the block alone
KeepEpc == [store |-> FALSE, epc |-> ToWord(0)]
HandlerEffects == {[store |-> TRUE, epc |-> v] : v \in HandlerEpcVals} \cup {KeepEpc}

\* ------------------------------------------------------------------------
\* State

VARIABLES
    __exception_handler,    \* __exception_handler: the unhandled-exception slot
    __syscall_handlers,     \* __syscall_handlers[MAX_SYSCALL_HANDLERS]
    backtrace_exception,  \* the static flag of exception_default_handler
    ndebug,               \* TRUE in a build with NDEBUG defined
    stack,                \* the active calls of exception_default_handler
    regs,                 \* the register block of the trap being dispatched
    halt,                 \* "none", or the abort() / assertf that ended the process
    op,                   \* the operation last performed and its arguments
    pre,                  \* the registry as it was before that operation
    calls,                \* the handler calls that operation made, in order
    last_cb,              \* the argument of the last register_exception_handler
                          \* call, "none" before the first
    out                   \* what has been written to the debug stream and
                          \* handed to the formatter callbacks, in order

vars == <<__exception_handler, __syscall_handlers, backtrace_exception, ndebug,
          stack, regs, halt, op, pre, calls, last_cb, out>>

TableIndex == 0 .. (MAX_SYSCALL_HANDLERS - 1)

\* a zero-initialised syscall_handler_entry_t
EmptyEntry == [handler |-> NULL, first_code |-> 0, last_code |-> 0]

\* the register block outside a trap (the trampoline's frame is gone)
NoRegs == [epc |-> ToWord(0), cr |-> ToWord(0), fc31 |-> ToWord(0)]

Registry == [__exception_handler |-> __exception_handler,
             __syscall_handlers |-> __syscall_handlers]

\* ------------------------------------------------------------------------
\* Exception classifier

\* faulty variant: the entries from 13 on are shifted by one, so that 13 repeats 12
exceptionMap_shifted ==
    [c \in 0 .. 31 |->
        CASE c = 0 -> "Interrupt"
          [] c = 1 -> "TLB Modification"
          [] c = 2 -> "TLB Miss (load/instruction fetch)"
          [] c = 3 -> "TLB Miss (store)"
          [] c = 4 -> "Address Error (load/instruction fetch)"
          [] c = 5 -> "Address Error (store)"
          [] c = 6 -> "Bus Error (instruction fetch)"
          [] c = 7 -> "Bus Error (data reference: load/store)"
          [] c = 8 -> "Syscall"
          [] c = 9 -> "Breakpoint"
          [] c = 10 -> "Reserved Instruction"
          [] c = 11 -> "Coprocessor Unusable"
          [] c = 12 -> "Arithmetic Overflow"
          [] c = 13 -> "Arithmetic Overflow"
          [] c = 14 -> "Trap"
          [] c = 16 -> "Floating-Point"
          [] c = 24 -> "Watch"
          [] OTHER -> "Reserved"]

\* line 271-305
exceptionMap ==
    [c \in 0 .. 31 |->
        CASE c = 0 -> "Interrupt"
          [] c = 1 -> "TLB Modification"
          [] c = 2 -> "TLB Miss (load/instruction fetch)"
          [] c = 3 -> "TLB Miss (store)"
          [] c = 4 -> "Address Error (load/instruction fetch)"
          [] c = 5 -> "Address Error (store)"
          [] c = 6 -> "Bus Error (instruction fetch)"
          [] c = 7 -> "Bus Error (data reference: load/store)"
          [] c = 8 -> "Syscall"
          [] c = 9 -> "Breakpoint"
          [] c = 10 -> "Reserved Instruction"
          [] c = 11 -> "Coprocessor Unusable"
          [] c = 12 -> "Arithmetic Overflow"
          [] c = 13 -> "Trap"
          [] c = 15 -> "Floating-Point"
          [] c = 23 -> "Watch"
          [] OTHER -> "Reserved"]

\* faulty variant: the saved EPC is taken as it is
adjusted_epc_unadjusted(r) == r.epc

\* line 310: the fault address: the saved EPC, plus 4 in a branch delay slot
adjusted_epc(r) ==
    Add32(r.epc, IF NonZero(BitAnd(r.cr, C0_CAUSE_BD)) THEN 4 ELSE 0)

\* faulty variant: invalid operation is tested before divide by zero
fp_exception_name_invalid_first(fc31) ==
    IF NonZero(BitAnd(fc31, C1_CAUSE_INVALID_OP))
        THEN "Floating point invalid operation"
    ELSE IF NonZero(BitAnd(fc31, C1_CAUSE_DIV_BY_0))
        THEN "Floating point divide by zero"
    ELSE IF NonZero(BitAnd(fc31, C1_CAUSE_OVERFLOW))
        THEN "Floating point overflow"
    ELSE IF NonZero(BitAnd(fc31, C1_CAUSE_UNDERFLOW))
        THEN "Floating point underflow"
    ELSE IF NonZero(BitAnd(fc31, C1_CAUSE_INEXACT_OP))
        THEN "Floating point inexact operation"
    ELSE "Generic floating point"

\* line 315-327: case EXCEPTION_CODE_FLOATING_POINT
fp_exception_name(fc31) ==
    IF NonZero(BitAnd(fc31, C1_CAUSE_DIV_BY_0))
        THEN "Floating point divide by zero"
    ELSE IF NonZero(BitAnd(fc31, C1_CAUSE_INVALID_OP))
        THEN "Floating point invalid operation"
    ELSE IF NonZero(BitAnd(fc31, C1_CAUSE_OVERFLOW))
        THEN "Floating point overflow"
    ELSE IF NonZero(BitAnd(fc31, C1_CAUSE_UNDERFLOW))
        THEN "Floating point underflow"
    ELSE IF NonZero(BitAnd(fc31, C1_CAUSE_INEXACT_OP))
        THEN "Floating point inexact operation"
    ELSE "Generic floating point"

\* faulty variant: the margin is tested with <= instead of <
tlb_miss_is_null_inclusive(badvaddr) == WordBelow(badvaddr, 129)

\* line 331, 339: badvaddr < 128
tlb_miss_is_null(badvaddr) == WordBelow(badvaddr, 128)

\* line 329-337: case EXCEPTION_CODE_TLB_LOAD_I_MISS
tlb_load_miss_name(epc, badvaddr) ==
    IF epc = badvaddr THEN "Invalid program counter address"
    ELSE IF tlb_miss_is_null(badvaddr) THEN "NULL pointer dereference (read)"
    ELSE "Read from invalid memory address"

\* line 339-343: case EXCEPTION_CODE_TLB_STORE_MISS
tlb_store_miss_name(badvaddr) ==
    IF tlb_miss_is_null(badvaddr) THEN "NULL pointer dereference (write)"
    ELSE "Write to invalid memory address"

\* faulty variant: no refinement: every code gets its table entry
get_exception_name_table_only(code, r, badvaddr) == exceptionMap[code]

__get_exception_name(code, r, badvaddr) ==
    LET epc == adjusted_epc(r) IN
    CASE code = EXCEPTION_CODE_FLOATING_POINT -> fp_exception_name(r.fc31)
      [] code = EXCEPTION_CODE_TLB_LOAD_I_MISS -> tlb_load_miss_name(epc, badvaddr)
      [] code = EXCEPTION_CODE_TLB_STORE_MISS -> tlb_store_miss_name(badvaddr)
      [] code = EXCEPTION_CODE_TLB_MODIFICATION -> "Write to read-only memory"
      [] code = EXCEPTION_CODE_LOAD_I_ADDRESS_ERROR ->
            IF epc = badvaddr THEN "Misaligned program counter address"
            ELSE "Misaligned read from memory"
      [] code = EXCEPTION_CODE_STORE_ADDRESS_ERROR -> "Misaligned write to memory"
      [] code = EXCEPTION_CODE_SYS_CALL -> "Unhandled syscall"
      [] OTHER -> exceptionMap[code]

\* the exception_t that __fetch_regs fills in (e->regs is the block itself)
__fetch_regs(type, r, badvaddr) ==
    LET code == C0_GET_CAUSE_EXC_CODE(r.cr) IN
    [type |-> type, code |-> code, info |-> __get_exception_name(code, r, badvaddr)]

\* ------------------------------------------------------------------------
\* Diagnostic output

\* the coprocessor registers the header reads when it is written
Cop0(badvaddr, watchlo, fcr31) ==
    [badvaddr |-> badvaddr, watchlo |-> watchlo, fcr31 |-> fcr31]

\* line 102: the address printed after "exception at PC:"
header_pc(r) ==
    Add32(r.epc, IF NonZero(BitAnd(r.cr, C0_CAUSE_BD)) THEN 4 ELSE 0)

\* line 117-121: the names printed between the brackets, in order
fpu_status_flags(fcr31) ==
    (IF NonZero(BitAnd(fcr31, C1_CAUSE_INEXACT_OP)) THEN <<"INEXACT">> ELSE <<>>)
    \o (IF NonZero(BitAnd(fcr31, C1_CAUSE_OVERFLOW)) THEN <<"OVERFLOW">> ELSE <<>>)
    \o (IF NonZero(BitAnd(fcr31, C1_CAUSE_DIV_BY_0)) THEN <<"DIV0">> ELSE <<>>)
    \o (IF NonZero(BitAnd(fcr31, C1_CAUSE_INVALID_OP)) THEN <<"INVALID">> ELSE <<>>)
    \o (IF NonZero(BitAnd(fcr31, C1_CAUSE_NOT_IMPLEMENTED)) THEN <<"NOTIMPL">> ELSE <<>>)

\* line 103-136: the line that follows the header line, "none" without one
header_detail(e, r, cop0) ==
    CASE e.code \in {EXCEPTION_CODE_STORE_ADDRESS_ERROR,
                     EXCEPTION_CODE_LOAD_I_ADDRESS_ERROR,
                     EXCEPTION_CODE_TLB_STORE_MISS,
                     EXCEPTION_CODE_TLB_LOAD_I_MISS,
                     EXCEPTION_CODE_I_BUS_ERROR,
                     EXCEPTION_CODE_D_BUS_ERROR,
                     EXCEPTION_CODE_TLB_MODIFICATION} ->
            [label |-> "Exception address", value |-> cop0.badvaddr, flags |-> <<>>]
      [] e.code = EXCEPTION_CODE_FLOATING_POINT ->
            [label |-> "FPU status", value |-> cop0.fcr31,
             flags |-> fpu_status_flags(r.fc31)]
      [] e.code = EXCEPTION_CODE_COPROCESSOR_UNUSABLE ->
            [label |-> "COP", value |-> ToWord(C0_GET_CAUSE_CE(r.cr)), flags |-> <<>>]
      [] e.code = EXCEPTION_CODE_WATCH ->
            [label |-> "Watched address",
             value |-> Word(cop0.watchlo.hi, cop0.watchlo.lo - (cop0.watchlo.lo % 4)),
             flags |-> <<>>]
      [] OTHER -> [label |-> "none", value |-> ToWord(0), flags |-> <<>>]

\* line 98-137: what __exception_dump_header writes
__exception_dump_header(e, r, cop0) ==
    [item |-> "header", info |-> e.info, pc |-> header_pc(r),
     detail |-> header_detail(e, r, cop0)]

\* ------------------------------------------------------------------------
\* Diagnostic formatter. A uint64_t is kept as its four 16-bit groups,
\* <<bits 48..63, bits 32..47, bits 16..31, bits 0..15>>; a text is the
\* sequence of its characters.

HexDigits == <<"0", "1", "2", "3", "4", "5", "6", "7",
               "8", "9", "a", "b", "c", "d", "e", "f">>

\* printf("%04llx") of a value below 2^16
Hex4(n) ==
    <<HexDigits[(n \div 4096) + 1], HexDigits[((n \div 256) % 16) + 1],
      HexDigits[((n \div 16) % 16) + 1], HexDigits[(n % 16) + 1]>>

\* snprintf(buf, size, ...): at most size - 1 characters are stored
snprintf(size, text) ==
    IF Len(text) > size - 1 THEN SubSeq(text, 1, size - 1) ELSE text

\* (int32_t)v converted back to uint64_t for the comparison: the low 32
\* bits, sign-extended
int32_of(v) ==
    LET ext == IF v[3] >= Pow2(15) THEN Half - 1 ELSE 0 IN  <<ext, ext, v[3], v[4]>>

\* faulty variant: the low 32 bits are zero-extended, (uint32_t)v == v
fits_int32_zero_extended(v) == v = <<0, 0, v[3], v[4]>>

\* line 150: (int32_t)v == v
fits_int32(v) == int32_of(v) = v

\* line 149: the value dumped at index i
gpr_value(r, i) == IF i < 32 THEN r.gpr[i] ELSE IF i = 33 THEN r.lo ELSE r.hi

\* line 150-154: the text left in buf (char buf[24])
gpr_text(v) ==
    IF fits_int32(v)
        THEN snprintf(24, <<"-", "-", "-", "-", " ", "-", "-", "-", "-", " ">>
                          \o Hex4(v[3]) \o <<" ">> \o Hex4(v[4]))
        ELSE snprintf(24, Hex4(v[1]) \o <<" ">> \o Hex4(v[2]) \o <<" ">>
                          \o Hex4(v[3]) \o <<" ">> \o Hex4(v[4]))

\* line 146-157: the calls of cb that __exception_dump_gpr makes from index
\* i on; the register name __mips_gpr[i] is kept as the index i
RECURSIVE exception_dump_gpr_from(_, _)
exception_dump_gpr_from(r, i) ==
    IF i = 34 THEN <<>>
    ELSE <<[cb |-> "gpr", regname |-> i, value |-> gpr_text(gpr_value(r, i))]>>
         \o exception_dump_gpr_from(r, i + 1)

__exception_dump_gpr(r) == exception_dump_gpr_from(r, 0)

\* a & b on uint64_t
BitAnd64(a, b) == [k \in 1 .. 4 |-> BitAndRec(a[k], b[k], 16)]

\* faulty variant: the exponent mask misses its lowest bit
SINGLE_EXPONENT_MASK_short == Word(32512, 0)

\* line 183, 185: 0x7F800000 and 0x007FFFFF
SINGLE_EXPONENT_MASK == Word(32640, 0)
SINGLE_MANTISSA_MASK == Word(127, Half - 1)

\* line 192, 194: 0x7FF0000000000000 and 0x000FFFFFFFFFFFFF
DOUBLE_EXPONENT_MASK == <<32752, 0, 0, 0>>
DOUBLE_MANTISSA_MASK == <<15, Half - 1, Half - 1, Half - 1>>

\* line 187-188: __builtin_isinf(f) and f < 0 of the float with these bits
\* (IEEE 754 binary32: all exponent bits set and no mantissa bit; the sign
\* is bit 31)
float_isinf(w) == (w.hi % Pow2(15)) \div 128 = 255 /\ w.hi % 128 = 0 /\ w.lo = 0
float_negative(w) == w.hi >= Pow2(15) /\ (w.hi % Pow2(15) # 0 \/ w.lo # 0)

\* line 196-197: __builtin_isinf(g) and g < 0 of the double with these bits
\* (IEEE 754 binary64)
double_isinf(v) ==
    (v[1] % Pow2(15)) \div 16 = 2047 /\ v[1] % 16 = 0 /\ v[2] = 0 /\ v[3] = 0 /\ v[4] = 0
double_negative(v) ==
    v[1] >= Pow2(15) /\ (v[1] % Pow2(15) # 0 \/ v[2] # 0 \/ v[3] # 0 \/ v[4] # 0)

\* the text sprintf("%.12g") / sprintf("%.17g") writes, kept as the number
\* it renders
decimal_text(format, bits) == [tag |-> format, bits |-> bits]

\* a fixed text
fixed_text(tag) == [tag |-> tag, bits |-> <<>>]

\* line 183-190: singlep
single_text(fpr32) ==
    IF BitAnd(fpr32, SINGLE_EXPONENT_MASK) = ToWord(0)
       /\ BitAnd(fpr32, SINGLE_MANTISSA_MASK) # ToWord(0)
        THEN fixed_text("<Denormal>")
    ELSE IF BitAnd(fpr32, SINGLE_EXPONENT_MASK) = SINGLE_EXPONENT_MASK
            /\ BitAnd(fpr32, SINGLE_MANTISSA_MASK) # ToWord(0)
        THEN fixed_text("<NaN>")
    ELSE IF float_isinf(fpr32)
        THEN (IF float_negative(fpr32) THEN fixed_text("<-Inf>") ELSE fixed_text("<+Inf>"))
    ELSE decimal_text("%.12g", <<fpr32.hi, fpr32.lo>>)

\* line 192-199: doublep
double_text(fpr64) ==
    IF BitAnd64(fpr64, DOUBLE_EXPONENT_MASK) = <<0, 0, 0, 0>>
       /\ BitAnd64(fpr64, DOUBLE_MANTISSA_MASK) # <<0, 0, 0, 0>>
        THEN fixed_text("<Denormal>")
    ELSE IF BitAnd64(fpr64, DOUBLE_EXPONENT_MASK) = DOUBLE_EXPONENT_MASK
            /\ BitAnd64(fpr64, DOUBLE_MANTISSA_MASK) # <<0, 0, 0, 0>>
        THEN fixed_text("<NaN>")
    ELSE IF double_isinf(fpr64)
        THEN (IF double_negative(fpr64) THEN fixed_text("<-Inf>") ELSE fixed_text("<+Inf>"))
    ELSE decimal_text("%.17g", fpr64)

\* line 169-203: the calls of cb that __exception_dump_fpr makes from index
\* i on; the register name __mips_fpreg[i] is kept as the index i
RECURSIVE exception_dump_fpr_from(_, _)
exception_dump_fpr_from(r, i) ==
    IF i = 32 THEN <<>>
    ELSE LET fpr64 == r.fpr[i]
             fpr32 == Word(fpr64[3], fpr64[4])
         IN  <<[cb |-> "fpr", regname |-> i,
                hex |-> snprintf(32, Hex4(fpr64[1]) \o Hex4(fpr64[2])
                                     \o Hex4(fpr64[3]) \o Hex4(fpr64[4])),
                single |-> single_text(fpr32),
                double |-> double_text(fpr64)]>>
             \o exception_dump_fpr_from(r, i + 1)

__exception_dump_fpr(r) == exception_dump_fpr_from(r, 0)

\* ------------------------------------------------------------------------
\* Handler registry

\* faulty variant: the bound check off by one
syscall_code_below_max(c) == c < MAX_SYSCALL_CODE

\* line 419-420: a bound of the range is a 20-bit code
syscall_code_ok(c) == c <= MAX_SYSCALL_CODE

\* faulty variant: an entry counts as unused by its zeroed range
entry_is_free_by_range(entry) == entry.first_code = 0 /\ entry.last_code = 0

\* line 425: the entry is unused
entry_is_free(entry) == entry.handler = NULL

\* faulty variant: only the start of the entry's range is tested
ranges_overlap_start_only(entry, first_code, last_code) ==
    entry.first_code <= last_code /\ entry.first_code >= first_code

\* line 432: the entry's range and [first_code, last_code] intersect
ranges_overlap(entry, first_code, last_code) ==
    entry.first_code <= last_code /\ entry.last_code >= first_code

\* line 427-429: what is stored into the free entry
stored_entry(handler, first_code, last_code) ==
    [handler |-> handler, first_code |-> first_code, last_code |-> last_code]

\* assertf(expr, msg, ...) of debug.h: the process is ended with the message
\* when expr is false
assertf_fails(expr) == ~expr

\* line 423-438: the scan from entry i on; the table it leaves and how the
\* call ends ("none": it returns)
RECURSIVE syscall_scan(_, _, _, _, _)
syscall_scan(table, i, handler, first_code, last_code) ==
    IF i = MAX_SYSCALL_HANDLERS
        THEN [table |-> table,
              halt |-> IF assertf_fails(FALSE)
                          THEN "assertf: Too many syscall handlers" ELSE "none"]
    ELSE IF entry_is_free(table[i])
        THEN [table |-> [table EXCEPT
                            ![i] = stored_entry(handler, first_code, last_code)],
              halt |-> "none"]
    ELSE IF ranges_overlap(table[i], first_code, last_code) /\ assertf_fails(FALSE)
        THEN [table |-> table, halt |-> "assertf: Syscall handler already registered"]
    ELSE syscall_scan(table, i + 1, handler, first_code, last_code)

\* faulty variant: the range is validated after the table has been written
register_syscall_handler_late_checks(table, handler, first_code, last_code) ==
    LET res == syscall_scan(table, 0, handler, first_code, last_code) IN
    IF res.halt # "none" THEN res
    ELSE IF assertf_fails(syscall_code_ok(first_code))
        THEN [table |-> res.table, halt |-> "assertf: first_code <= 0xFFFFF"]
    ELSE IF assertf_fails(syscall_code_ok(last_code))
        THEN [table |-> res.table, halt |-> "assertf: last_code <= 0xFFFFF"]
    ELSE IF assertf_fails(first_code <= last_code)
        THEN [table |-> res.table, halt |-> "assertf: first_code <= last_code"]
    ELSE res

\* register_syscall_handler: assertf ends the process when its condition fails
register_syscall_handler_result(table, handler, first_code, last_code) ==
    IF assertf_fails(syscall_code_ok(first_code))
        THEN [table |-> table, halt |-> "assertf: first_code <= 0xFFFFF"]
    ELSE IF assertf_fails(syscall_code_ok(last_code))
        THEN [table |-> table, halt |-> "assertf: last_code <= 0xFFFFF"]
    ELSE IF assertf_fails(first_code <= last_code)
        THEN [table |-> table, halt |-> "assertf: first_code <= last_code"]
    ELSE syscall_scan(table, 0, handler, first_code, last_code)

\* the program runs: it has not been aborted and is not in the default handler
Running == halt = "none" /\ stack = <<>>

register_syscall_handler(handler, first_code, last_code) ==
    /\ Running
    /\ LET res == register_syscall_handler_result(
                      __syscall_handlers, handler, first_code, last_code) IN
        /\ __syscall_handlers' = res.table
        /\ halt' = res.halt
    /\ op' = [name |-> "register_syscall_handler", handler |-> handler,
              first_code |-> first_code, last_code |-> last_code]
    /\ pre' = Registry
    /\ calls' = <<>>
    /\ regs' = NoRegs
    /\ UNCHANGED <<__exception_handler, backtrace_exception, ndebug, stack, last_cb,
                   out>>

\* faulty variant: the new handler is returned instead of the old one
returned_new_handler(old, cb) == cb

\* line 86-88: what register_exception_handler stores and what it returns
new_exception_handler(old, cb) == cb
returned_exception_handler(old, cb) == old

register_exception_handler(cb) ==
    /\ Running
    /\ __exception_handler' = new_exception_handler(__exception_handler, cb)
    /\ op' = [name |-> "register_exception_handler", cb |-> cb,
              ret |-> returned_exception_handler(__exception_handler, cb),
              prev_cb |-> last_cb]
    /\ last_cb' = cb
    /\ pre' = Registry
    /\ calls' = <<>>
    /\ regs' = NoRegs
    /\ UNCHANGED <<__syscall_handlers, backtrace_exception, ndebug, stack, halt, out>>


\* ------------------------------------------------------------------------
\* Dispatch entry points

\* faulty variant: the slot is called without the test
no_handler_unchecked(slot) == FALSE

\* line 388, 451: the test !__exception_handler
no_handler(slot) == slot = NULL

\* faulty variant: the mask is 0xffff, the code loses its four highest bits
syscall_code_16_bits(opcode) == (opcode.lo \div 64) + (opcode.hi % Pow2(6)) * Pow2(10)

\* line 458: bits 6..25 of the instruction word
syscall_code(opcode) == (opcode.lo \div 64) + (opcode.hi % Pow2(10)) * Pow2(10)

\* line 463-465: the entry is registered and its range holds the code
entry_matches(entry, code) ==
    /\ entry.handler # NULL
    /\ entry.first_code <= code
    /\ entry.last_code >= code

\* faulty variant: the syscall opcode is not skipped
skip_syscall_opcode_missing(epc) == epc

\* line 478: the saved EPC after a handled syscall
skip_syscall_opcode(epc) == Add32(epc, 4)

\* the register block after a user handler that has the effect eff returned
apply_effect(r, eff) == IF eff.store THEN [r EXCEPT !.epc = eff.epc] ELSE r

\* one call of a handler: the function, the table entry it came from (-1:
\* the unhandled-exception slot), the exception_t, the syscall code passed
\* (-1: none) and the saved EPC when the handler returned
HandlerCall(fn, idx, e, arg, r) ==
    [fn |-> fn, idx |-> idx, type |-> e.type, code |-> e.code,
     info |-> e.info, arg |-> arg, epc_ret |-> r.epc]

\* faulty variant: the critical entry advances the saved EPC as the syscall
\* entry does
critical_exception_skips_opcode(slot, r, badvaddr, eff, cs) ==
    IF slot = NULL
        THEN [regs |-> r, calls |-> cs, in_default |-> FALSE]
    ELSE LET e == __fetch_regs(EXCEPTION_TYPE_CRITICAL, r, badvaddr) IN
         IF slot = exception_default_handler
            THEN [regs |-> r,
                  calls |-> Append(cs, HandlerCall(slot, -1, e, -1, r)),
                  in_default |-> TRUE]
         ELSE LET r2 == apply_effect(r, eff) IN
              [regs |-> [r2 EXCEPT !.epc = Add32(r2.epc, 4)],
               calls |-> Append(cs, HandlerCall(slot, -1, e, -1, r2)),
               in_default |-> FALSE]

\* __onCriticalException (line 384-392) on block r, after the calls cs:
\* the block and the calls it leaves, and whether it called the default
\* handler (which does not return)
critical_exception(slot, r, badvaddr, eff, cs) ==
    IF no_handler(slot)
        THEN [regs |-> r, calls |-> cs, in_default |-> FALSE]
    ELSE LET e == __fetch_regs(EXCEPTION_TYPE_CRITICAL, r, badvaddr) IN
         IF slot = exception_default_handler
            THEN [regs |-> r,
                  calls |-> Append(cs, HandlerCall(slot, -1, e, -1, r)),
                  in_default |-> TRUE]
         ELSE LET r2 == apply_effect(r, eff) IN
              [regs |-> r2,
               calls |-> Append(cs, HandlerCall(slot, -1, e, -1, r2)),
               in_default |-> FALSE]

\* line 461-470: the loop over the table from entry i on; effs gives the
\* effect of each handler called
RECURSIVE syscall_loop(_, _, _, _, _, _, _)
syscall_loop(table, i, e, code, r, cs, effs) ==
    IF i = MAX_SYSCALL_HANDLERS
        THEN [regs |-> r, calls |-> cs]
    ELSE IF entry_matches(table[i], code)
        THEN LET r2 == apply_effect(r, effs[i]) IN
             syscall_loop(table, i + 1, e, code, r2,
                          Append(cs, HandlerCall(table[i].handler, i, e, code, r2)),
                          effs)
    ELSE syscall_loop(table, i + 1, e, code, r, cs, effs)

\* __onSyscallException (line 447-479)
syscall_exception(slot, table, r, opcode, badvaddr, effs, eff) ==
    IF no_handler(slot)
        THEN [regs |-> r, calls |-> <<>>, in_default |-> FALSE]
    ELSE LET e == __fetch_regs(EXCEPTION_TYPE_SYSCALL, r, badvaddr)
             code == syscall_code(opcode)
             done == syscall_loop(table, 0, e, code, r, <<>>, effs)
             called == Len(done.calls) > 0
         IN  IF ~called
                THEN critical_exception(slot, done.regs, badvaddr, eff, done.calls)
             ELSE [regs |-> [done.regs EXCEPT !.epc = skip_syscall_opcode(done.regs.epc)],
                   calls |-> done.calls,
                   in_default |-> FALSE]

\* ------------------------------------------------------------------------
\* Default handler

\* a bound of the model: the deepest nesting of default-handler calls
MaxDepth == 3

\* faulty variant: the debug build starts with the backtrace, before
\* anything is written
entry_step_backtrace_first(nd) == IF nd THEN "abort" ELSE "guard"

\* line 239-258: where a call of the handler starts
entry_step(nd) == IF nd THEN "abort" ELSE "debug_exception"

\* a call of exception_default_handler: the step it is at and the value the
\* flag had when it was entered
NewFrame(nd, flag) == [pc |-> entry_step(nd), flag_at_entry |-> flag]

\* a trap's outcome res takes effect; stepwise: the default handler is
\* entered and runs step by step, otherwise its call is taken whole
Dispatched(res, stepwise) ==
    /\ regs' = res.regs
    /\ calls' = res.calls
    /\ pre' = Registry
    /\ IF res.in_default /\ stepwise
          THEN /\ stack' = Append(stack, NewFrame(ndebug, backtrace_exception))
               /\ halt' = halt
          ELSE /\ stack' = stack
               /\ halt' = IF res.in_default THEN "abort" ELSE halt
    /\ UNCHANGED <<__exception_handler, __syscall_handlers,
                   backtrace_exception, ndebug, last_cb>>

\* the effects the handler in the slot can have: the default handler and
\* an empty slot have none to choose
UserEffects(slot) ==
    IF slot \in {NULL, exception_default_handler} THEN {KeepEpc} ELSE HandlerEffects

\* the register blocks the trampoline hands to the entry points
CriticalBlocks == [epc : EpcVals, cr : CriticalCrVals, fc31 : Fc31Vals]
SyscallBlocks == [epc : {Word(32768, 1024)}, cr : SyscallCrVals, fc31 : {ToWord(0)}]

__onCriticalException(stepwise) ==
    /\ Running
    /\ \E r \in CriticalBlocks, badvaddr \in BadVAddrVals,
          eff \in UserEffects(__exception_handler) :
        /\ op' = [name |-> "__onCriticalException", regs |-> r, badvaddr |-> badvaddr]
        /\ Dispatched(critical_exception(__exception_handler, r, badvaddr, eff, <<>>),
                      stepwise)
    /\ out' = out

\* the entries a syscall trap with this instruction word calls
MatchingEntries(table, opcode) ==
    { i \in TableIndex : entry_matches(table[i], syscall_code(opcode)) }

__onSyscallException(stepwise) ==
    /\ Running
    /\ \E r \in SyscallBlocks, opcode \in OpcodeVals, badvaddr \in BadVAddrVals,
          eff \in UserEffects(__exception_handler) :
        \E effs \in [MatchingEntries(__syscall_handlers, opcode) -> HandlerEffects] :
            /\ op' = [name |-> "__onSyscallException", regs |-> r,
                      opcode |-> opcode, badvaddr |-> badvaddr]
            /\ Dispatched(syscall_exception(__exception_handler, __syscall_handlers,
                                            r, opcode, badvaddr, effs, eff),
                          stepwise)
    /\ out' = out

\* ------------------------------------------------------------------------
\* Specification of the registry and the dispatch entry points

Init ==
    /\ __exception_handler = exception_default_handler
    /\ __syscall_handlers = [i \in TableIndex |-> EmptyEntry]
    /\ backtrace_exception = FALSE
    /\ ndebug = FALSE
    /\ stack = <<>>
    /\ regs = NoRegs
    /\ halt = "none"
    /\ op = [name |-> "start"]
    /\ pre = [__exception_handler |-> exception_default_handler,
              __syscall_handlers |-> [i \in TableIndex |-> EmptyEntry]]
    /\ calls = <<>>
    /\ last_cb = "none"
    /\ out = <<>>

RegisterExceptionHandler == \E cb \in ExceptionHandlerArgs : register_exception_handler(cb)

RegisterSyscallHandler ==
    \E args \in RegisterSyscallArgs :
        register_syscall_handler(args[1], args[2][1], args[2][2])

CriticalException == __onCriticalException(FALSE)

SyscallException == __onSyscallException(FALSE)

Next ==
    \/ RegisterExceptionHandler
    \/ RegisterSyscallHandler
    \/ CriticalException
    \/ SyscallException

Spec == Init /\ [][Next]_vars


\* ------------------------------------------------------------------------
\* The default handler, step by step (debug build: line 244, 248-249,
\* 251-252, 255, 258; NDEBUG build: line 258 alone)

Top == stack[Len(stack)]

\* the handler's innermost call is at this step
AtStep(step) == halt = "none" /\ stack # <<>> /\ Top.pc = step

\* faulty variant: the handler lacks its final abort() and returns
next_step_returns(pc) ==
    CASE pc = "debug_exception" -> "guard"
      [] pc = "backtrace" -> "inspector"
      [] pc = "inspector" -> "return"

\* line 244-258: the step that follows a step that returned
next_step(pc) ==
    CASE pc = "debug_exception" -> "guard"
      [] pc = "backtrace" -> "inspector"
      [] pc = "inspector" -> "abort"

\* faulty variant: the flag is not tested
guard_aborts_never(flag) == FALSE

\* line 248: if (backtrace_exception) abort();
guard_aborts(flag) == flag

\* faulty variant: the flag is not set
flag_before_backtrace_unset == FALSE

\* line 249: backtrace_exception = true;
flag_before_backtrace == TRUE

\* line 252: backtrace_exception = false;
flag_after_backtrace == FALSE

\* the innermost call goes on to step pc; "return" would leave the handler
\* and resume its caller
Continue(pc) ==
    stack' = IF pc = "return"
                THEN SubSeq(stack, 1, Len(stack) - 1)
                ELSE [stack EXCEPT ![Len(stack)].pc = pc]

\* the exception_t of the innermost call of the handler: the last handler
\* call made
TopEx == calls[Len(calls)]

\* the coprocessor registers while the handler runs (the watch register and
\* the live FCR31 are not inputs of the traps modelled here)
TopCop0 == Cop0(op.badvaddr, ToWord(0), regs.fc31)

\* faulty variant: the floating-point registers are never dumped
dumps_fpr_never(code) == FALSE

\* line 220: if (ex->code == EXCEPTION_CODE_FLOATING_POINT)
dumps_fpr(code) == code = EXCEPTION_CODE_FLOATING_POINT

\* line 206-228: what debug_exception writes: the header, the 34 lines of
\* __exception_dump_gpr and, for a floating-point exception, the 32 lines
\* of __exception_dump_fpr
debug_exception_output(e, r, cop0) ==
    <<__exception_dump_header(e, r, cop0), [item |-> "GPR", lines |-> 34]>>
    \o (IF dumps_fpr(e.code) THEN <<[item |-> "FPR", lines |-> 32]>> ELSE <<>>)

\* the items are written by the call of the handler at depth k
WrittenBy(k, items) == [i \in 1 .. Len(items) |-> [call |-> k, text |-> items[i]]]

\* line 244: debug_exception(ex) returns
debug_exception ==
    /\ AtStep("debug_exception")
    /\ out' = out \o WrittenBy(Len(stack), debug_exception_output(TopEx, regs, TopCop0))
    /\ Continue(next_step("debug_exception"))
    /\ UNCHANGED <<__exception_handler, __syscall_handlers, backtrace_exception,
                   ndebug, regs, halt, op, pre, calls, last_cb>>

\* line 248-249: the re-entrancy guard
backtrace_guard ==
    /\ AtStep("guard")
    /\ IF guard_aborts(backtrace_exception)
          THEN /\ halt' = "abort"
               /\ UNCHANGED <<stack, backtrace_exception>>
          ELSE /\ backtrace_exception' = flag_before_backtrace
               /\ Continue("backtrace")
               /\ halt' = halt
    /\ UNCHANGED <<__exception_handler, __syscall_handlers, ndebug, regs, op,
                   pre, calls, last_cb, out>>

\* line 251-252: __debug_backtrace(stderr, true) returns
__debug_backtrace ==
    /\ AtStep("backtrace")
    /\ out' = out \o WrittenBy(Len(stack), <<[item |-> "backtrace"]>>)
    /\ backtrace_exception' = flag_after_backtrace
    /\ Continue(next_step("backtrace"))
    /\ UNCHANGED <<__exception_handler, __syscall_handlers, ndebug, regs, halt,
                   op, pre, calls, last_cb>>

\* line 255: __inspector_exception(ex) returns
__inspector_exception ==
    /\ AtStep("inspector")
    /\ Continue(next_step("inspector"))
    /\ UNCHANGED <<__exception_handler, __syscall_handlers, backtrace_exception,
                   ndebug, regs, halt, op, pre, calls, last_cb, out>>

\* line 258: abort()
final_abort ==
    /\ AtStep("abort")
    /\ halt' = "abort"
    /\ UNCHANGED <<__exception_handler, __syscall_handlers, backtrace_exception,
                   ndebug, stack, regs, op, pre, calls, last_cb, out>>

\* the steps that call into other code and can raise an exception of their own
FaultingSteps == {"debug_exception", "backtrace", "inspector"}

\* what a step has written when it faults: debug_exception any part of its
\* output, from nothing to all of it; the backtrace and the inspector write
\* to the stream only what the model does not keep
FaultedOutput(pc) ==
    IF pc = "debug_exception"
        THEN LET full == debug_exception_output(TopEx, regs, TopCop0)
             IN  { SubSeq(full, 1, n) : n \in 0 .. Len(full) }
        ELSE { <<>> }

\* the register blocks of the faults raised inside the handler
NestedBlocks == { r \in CriticalBlocks : r.epc = Word(32768, 1024) }

\* a step of the handler faults: the trampoline enters __onCriticalException
\* again, on a new register block
nested_exception ==
    /\ halt = "none"
    /\ stack # <<>>
    /\ Top.pc \in FaultingSteps
    /\ Len(stack) < MaxDepth
    /\ \E r \in NestedBlocks, badvaddr \in BadVAddrVals :
        /\ op' = [name |-> "__onCriticalException", regs |-> r, badvaddr |-> badvaddr]
        /\ Dispatched(critical_exception(__exception_handler, r, badvaddr,
                                         KeepEpc, calls),
                      TRUE)
    /\ \E written \in FaultedOutput(Top.pc) :
          out' = out \o WrittenBy(Len(stack), written)

InitDefault ==
    /\ __exception_handler = exception_default_handler
    /\ __syscall_handlers = [i \in TableIndex |-> EmptyEntry]
    /\ backtrace_exception = FALSE
    /\ ndebug \in BOOLEAN
    /\ stack = <<>>
    /\ regs = NoRegs
    /\ halt = "none"
    /\ op = [name |-> "start"]
    /\ pre = [__exception_handler |-> exception_default_handler,
              __syscall_handlers |-> [i \in TableIndex |-> EmptyEntry]]
    /\ calls = <<>>
    /\ last_cb = "none"
    /\ out = <<>>

CriticalExceptionStepwise == __onCriticalException(TRUE)

SyscallExceptionStepwise == __onSyscallException(TRUE)

DefaultHandlerStep ==
    \/ debug_exception
    \/ backtrace_guard
    \/ __debug_backtrace
    \/ __inspector_exception
    \/ final_abort

NextDefault ==
    \/ RegisterExceptionHandler
    \/ CriticalExceptionStepwise
    \/ SyscallExceptionStepwise
    \/ DefaultHandlerStep
    \/ nested_exception

SpecDefault == InitDefault /\ [][NextDefault]_vars

\* ------------------------------------------------------------------------
\* Specification of the classifier: __fetch_regs and __exception_dump_header
\* applied to a register block

\* saved EPC values: 0x80000400, the highest word address, and two addresses
\* near the null-pointer margin
ClassifyEpcVals == {Word(32768, 1024), Word(Half - 1, Half - 4), ToWord(124), ToWord(64)}

\* values of BadVAddr: around the margin of 128, above 2^16, the addresses
\* the EPC values adjust to, and 0 (0xFFFFFFFC + 4)
ClassifyBadVAddrVals ==
    {ToWord(0), ToWord(64), ToWord(68), ToWord(127), ToWord(128), ToWord(129),
     Word(1, 0), Word(1, 64), Word(32768, 1024), Word(32768, 1028)}

\* Cause values: every exception code, in and out of a branch delay slot,
\* and coprocessor unusable for coprocessor 1
ClassifyCrVals ==
    { Cause(c, bd) : c \in 0 .. 31, bd \in BOOLEAN }
    \cup { Word(Pow2(12), EXCEPTION_CODE_COPROCESSOR_UNUSABLE * 4) }

\* FCR31 values: every subset of the six cause bits (12..17), with the
\* enable and flag bits (2..11) all clear or all set
ClassifyFc31Vals ==
    { Word(h, k * Pow2(12) + f) : h \in 0 .. 3, k \in 0 .. 15, f \in {0, 4092} }

ClassifyWatchLoVals == {Word(32768, 259)}

\* the register blocks classified: floating-point exceptions with every
\* FCR31, the other codes with every EPC
ClassifyBlocks ==
    [epc : {Word(32768, 1024)},
     cr : {Cause(EXCEPTION_CODE_FLOATING_POINT, bd) : bd \in BOOLEAN},
     fc31 : ClassifyFc31Vals]
    \cup [epc : ClassifyEpcVals, cr : ClassifyCrVals, fc31 : {ToWord(0), C1_CAUSE_DIV_BY_0}]

InitClassify ==
    /\ __exception_handler = exception_default_handler
    /\ __syscall_handlers = [i \in TableIndex |-> EmptyEntry]
    /\ backtrace_exception = FALSE
    /\ ndebug = FALSE
    /\ stack = <<>>
    /\ regs \in ClassifyBlocks
    /\ halt = "none"
    /\ \E badvaddr \in ClassifyBadVAddrVals, watchlo \in ClassifyWatchLoVals :
          /\ C0_GET_CAUSE_EXC_CODE(regs.cr) = EXCEPTION_CODE_FLOATING_POINT
                => badvaddr = ToWord(64)
          /\ op = [name |-> "start", badvaddr |-> badvaddr, watchlo |-> watchlo]
    /\ pre = [__exception_handler |-> exception_default_handler,
              __syscall_handlers |-> [i \in TableIndex |-> EmptyEntry]]
    /\ calls = <<>>
    /\ last_cb = "none"
    /\ out = <<>>

\* __fetch_regs(&e, type, regs) fills in the exception_t
FetchRegs ==
    /\ op.name = "start"
    /\ \E type \in {EXCEPTION_TYPE_CRITICAL, EXCEPTION_TYPE_SYSCALL} :
          op' = [name |-> "__fetch_regs", badvaddr |-> op.badvaddr,
                 watchlo |-> op.watchlo, e |-> __fetch_regs(type, regs, op.badvaddr)]
    /\ UNCHANGED <<__exception_handler, __syscall_handlers, backtrace_exception,
                   ndebug, stack, regs, halt, pre, calls, last_cb, out>>

\* __exception_dump_header(stderr, &e) writes the header
DumpHeader ==
    /\ op.name = "__fetch_regs"
    /\ op' = [op EXCEPT !.name = "__exception_dump_header"]
    /\ out' = Append(out, __exception_dump_header(
                              op.e, regs, Cop0(op.badvaddr, op.watchlo, regs.fc31)))
    /\ UNCHANGED <<__exception_handler, __syscall_handlers, backtrace_exception,
                   ndebug, stack, regs, halt, pre, calls, last_cb>>

NextClassify ==
    \/ FetchRegs
    \/ DumpHeader

SpecClassify == InitClassify /\ [][NextClassify]_vars

\* ------------------------------------------------------------------------
\* Specification of the formatter: __exception_dump_gpr and
\* __exception_dump_fpr applied to a register block

\* general-purpose register contents: sign-extended 32-bit values of both
\* signs, values whose high half differs from the sign extension, and
\* values with every hex digit
GprVals ==
    << <<0, 0, 0, 0>>,
       <<0, 0, 32767, 65535>>,
       <<65535, 65535, 32768, 0>>,
       <<0, 0, 32768, 0>>,
       <<65535, 65535, 32767, 65535>>,
       <<291, 17767, 35243, 52719>>,
       <<65535, 65535, 65535, 65535>>,
       <<0, 1, 0, 0>>,
       <<0, 0, 0, 43981>>,
       <<65535, 0, 32768, 0>>,
       <<0, 65535, 65535, 0>>,
       <<65244, 47768, 30292, 12816>>,
       <<32768, 0, 0, 0>>,
       <<65535, 65534, 65535, 65535>>,
       <<0, 0, 4660, 22136>>,
       <<65535, 65535, 43981, 61185>> >>

\* bits 32..63 of the floating-point register contents
FprHighVals ==
    << <<0, 0>>, <<32752, 0>>, <<65520, 0>>, <<32760, 0>>,
       <<15, 65535>>, <<16, 0>>, <<16368, 0>>, <<32768, 0>> >>

\* bits 0..31: 0x7FC00000, 0x7F800000, 0xFF800000, 0x00400000, 0x3F800000,
\* both zeros, the smallest denormal, a negative denormal, the smallest
\* normals, the largest normal, NaNs of both signs, and 0x7F000000
FprLowVals ==
    << <<32704, 0>>, <<32640, 0>>, <<65408, 0>>, <<64, 0>>, <<16256, 0>>,
       <<0, 0>>, <<32768, 0>>, <<0, 1>>, <<32895, 65535>>,
       <<128, 0>>, <<128, 1>>, <<32639, 65535>>, <<65408, 1>>, <<32640, 1>>,
       <<65535, 65535>>, <<32512, 0>> >>

FprVal(n) == FprHighVals[(n \div 16) + 1] \o FprLowVals[(n % 16) + 1]

\* the register blocks dumped: the general-purpose values rotated through
\* the 32 registers by k, HI and LO two of them, and 32 consecutive
\* floating-point values from the n-th on
DumpBlock(k, h, n) ==
    [epc |-> ToWord(0), cr |-> ToWord(0), fc31 |-> ToWord(0),
     gpr |-> [i \in 0 .. 31 |-> GprVals[((i + k) % 16) + 1]],
     hi |-> GprVals[h],
     lo |-> GprVals[17 - h],
     fpr |-> [i \in 0 .. 31 |-> FprVal(n + i)]]

DumpBlocks == { DumpBlock(k, h, n) : k \in 0 .. 15, h \in {3, 6}, n \in {0, 32, 64, 96} }

InitDump ==
    /\ __exception_handler = exception_default_handler
    /\ __syscall_handlers = [i \in TableIndex |-> EmptyEntry]
    /\ backtrace_exception = FALSE
    /\ ndebug = FALSE
    /\ stack = <<>>
    /\ regs \in DumpBlocks
    /\ halt = "none"
    /\ op = [name |-> "start", dumped |-> {}]
    /\ pre = [__exception_handler |-> exception_default_handler,
              __syscall_handlers |-> [i \in TableIndex |-> EmptyEntry]]
    /\ calls = <<>>
    /\ last_cb = "none"
    /\ out = <<>>

\* __exception_dump_gpr(ex, cb, arg)
ExceptionDumpGpr ==
    /\ "gpr" \notin op.dumped
    /\ op' = [name |-> "__exception_dump_gpr", dumped |-> op.dumped \cup {"gpr"}]
    /\ out' = out \o __exception_dump_gpr(regs)
    /\ UNCHANGED <<__exception_handler, __syscall_handlers, backtrace_exception,
                   ndebug, stack, regs, halt, pre, calls, last_cb>>

\* __exception_dump_fpr(ex, cb, arg)
ExceptionDumpFpr ==
    /\ "fpr" \notin op.dumped
    /\ op' = [name |-> "__exception_dump_fpr", dumped |-> op.dumped \cup {"fpr"}]
    /\ out' = out \o __exception_dump_fpr(regs)
    /\ UNCHANGED <<__exception_handler, __syscall_handlers, backtrace_exception,
                   ndebug, stack, regs, halt, pre, calls, last_cb>>

NextDump ==
    \/ ExceptionDumpGpr
    \/ ExceptionDumpFpr

SpecDump == InitDump /\ [][NextDump]_vars

\* ------------------------------------------------------------------------
\* Specification of the syscall decoding: __onSyscallException applied to
\* instruction words of every shape, on tables that registration has filled

\* syscall codes at the ends of the 20-bit range and around the places
\* where the code crosses the halves of the word
DecodeCodes == {0, 1, 7, 10, 11, 1023, 1024, 65535, 65536,
                MAX_SYSCALL_CODE - 1, MAX_SYSCALL_CODE}

\* the halves of other instruction words: bits below, inside and above the
\* code field clear and set
DecodeHiVals == {0, 1, 1023, 1024, 64512, 32768, 65535}
DecodeLoVals == {0, 12, 63, 64, 65472, 65535}

\* the instruction words found at the saved EPC
DecodeOpcodeVals ==
    { SyscallOpcode(c) : c \in DecodeCodes }
    \cup { Word(h, l) : h \in DecodeHiVals, l \in DecodeLoVals }

\* the table after four registrations that cover every code, and after
\* three that leave the codes 1024..65535 out
DecodeTables ==
    { [i \in TableIndex |->
         CASE i = 0 -> stored_entry("syscall_handler_1", 0, 10)
           [] i = 1 -> stored_entry("syscall_handler_1", 11, 65535)
           [] i = 2 -> stored_entry("syscall_handler_1", 65536, MAX_SYSCALL_CODE - 1)
           [] i = 3 -> stored_entry("syscall_handler_1", MAX_SYSCALL_CODE, MAX_SYSCALL_CODE)],
      [i \in TableIndex |->
         CASE i = 0 -> stored_entry("syscall_handler_1", 0, 10)
           [] i = 1 -> stored_entry("syscall_handler_1", 11, 1023)
           [] i = 2 -> stored_entry("syscall_handler_1", 65536, MAX_SYSCALL_CODE)
           [] i = 3 -> EmptyEntry] }

InitDecode ==
    /\ __exception_handler \in {"user_handler_1", NULL}
    /\ __syscall_handlers \in DecodeTables
    /\ backtrace_exception = FALSE
    /\ ndebug = FALSE
    /\ stack = <<>>
    /\ regs = NoRegs
    /\ halt = "none"
    /\ \E opcode \in DecodeOpcodeVals : op = [name |-> "start", opcode |-> opcode]
    /\ pre = Registry
    /\ calls = <<>>
    /\ last_cb = __exception_handler
    /\ out = <<>>

\* the trampoline enters __onSyscallException; the word at the saved EPC is
\* op.opcode
SyscallExceptionDecode ==
    /\ op.name = "start"
    /\ \E r \in SyscallBlocks, badvaddr \in BadVAddrVals,
          eff \in UserEffects(__exception_handler) :
        \E effs \in [MatchingEntries(__syscall_handlers, op.opcode) -> HandlerEffects] :
            /\ op' = [name |-> "__onSyscallException", regs |-> r,
                      opcode |-> op.opcode, badvaddr |-> badvaddr]
            /\ Dispatched(syscall_exception(__exception_handler, __syscall_handlers,
                                            r, op.opcode, badvaddr, effs, eff),
                          FALSE)
    /\ out' = out

NextDecode == SyscallExceptionDecode

SpecDecode == InitDecode /\ [][NextDecode]_vars


\* ------------------------------------------------------------------------
\* Properties of the default handler (SpecDefault)

Frames == 1 .. Len(stack)

\* the calls of the default handler made since the last trap of the program
DefaultHandlerCalls ==
    Len(SelectSeq(calls, LAMBDA c : c.fn = exception_default_handler))

\* C1: a call of exception_default_handler entered while backtrace_exception
\* is set never gets past the guard: it starts no backtrace and runs no
\* inspector, and when the process has ended in it, it ended at the guard's
\* abort(); at most one call is in its backtrace step, and the flag is set
\* exactly while one is.
C1_ReentryGuard ==
    /\ \A i \in Frames :
          stack[i].flag_at_entry => stack[i].pc \in {"debug_exception", "guard"}
    /\ Cardinality({ i \in Frames : stack[i].pc = "backtrace" }) <= 1
    /\ backtrace_exception <=> (\E i \in Frames : stack[i].pc = "backtrace")
    /\ (halt = "abort" /\ stack # <<>> /\ Top.flag_at_entry) => Top.pc = "guard"

\* C1 witness: the backtrace of the first call faulted, the handler was
\* entered again with the flag set and ended the process at its guard
C1_Witness ==
    /\ halt = "abort"
    /\ Len(stack) = 2
    /\ stack[1].pc = "backtrace"
    /\ stack[2].flag_at_entry
    /\ stack[2].pc = "guard"

\* C2 as stated: default-handler calls never nest more than two deep
C2_DepthAtMostTwo == Len(stack) <= 2

\* C2 (amended): a fault of the backtrace step re-enters the handler with the
\* flag set, so that call is cut short at the guard; the handler nests more
\* than two deep only through a fault of the header/register dump or of the
\* inspector hand-off, which the guard does not cover.
C2_BacktraceFaultsDoNotNest ==
    /\ \A i \in Frames :
          (i < Len(stack) /\ stack[i].pc = "backtrace") => stack[i + 1].flag_at_entry
    /\ Len(stack) > 2 =>
          \E i \in Frames :
              i < Len(stack) /\ stack[i].pc \in {"debug_exception", "inspector"}

\* C2 witness: the backtrace faulted, the re-entered call faulted again in its
\* register dump, and a third call is active
C2_Witness ==
    /\ Len(stack) = 3
    /\ stack[1].pc = "backtrace"
    /\ stack[2].pc = "debug_exception"

\* C3: no call of exception_default_handler returns: every call made is still
\* active or the process has ended in it by abort(), in both builds; and the
\* handler never stops anywhere else: while a call is active and the process
\* has not ended, a step of it is enabled.
C3_NeverReturns ==
    /\ DefaultHandlerCalls = Len(stack)
    /\ (stack # <<>> /\ halt # "none") => halt = "abort"
    /\ (stack # <<>> /\ halt = "none") => ENABLED DefaultHandlerStep

\* C3 witness: in the debug build the backtrace and the inspector returned and
\* the handler ended the process with its final abort()
C3_Witness ==
    /\ ~ndebug
    /\ halt = "abort"
    /\ Len(stack) = 1
    /\ Top.pc = "abort"


\* ------------------------------------------------------------------------
\* Properties of the registry and of dispatch (Spec)

\* bits 6..25 of an instruction word
Bits6to25(w) == (((w.hi % 1024) * 65536) + w.lo) \div 64

\* a saved EPC plus 4, as a 32-bit address
Plus4(w) ==
    IF w.lo + 4 >= 65536
        THEN [hi |-> (w.hi + 1) % 65536, lo |-> w.lo + 4 - 65536]
        ELSE [hi |-> w.hi, lo |-> w.lo + 4]

\* the entries of a table that hold a handler
Registered(table) == { i \in TableIndex : table[i].handler # NULL }

InRange(entry, c) == entry.first_code <= c /\ c <= entry.last_code

Disjoint(a, b) == a.last_code < b.first_code \/ b.last_code < a.first_code

SyscallTrap == op.name = "__onSyscallException"

CriticalTrap == op.name = "__onCriticalException"

\* the registered entries whose range holds the code of the trapping opcode
Owners ==
    { i \in Registered(__syscall_handlers) :
        InRange(__syscall_handlers[i], Bits6to25(op.opcode)) }

\* C4: after a syscall trap taken with a handler in the unhandled-exception
\* slot and a code that lies in a registered range, exactly one call was
\* made: the handler of that range, with an exception_t of type syscall and
\* the code; the slot's handler was not called, and the saved EPC is the
\* EPC the handler left plus 4.
C4_MatchedSyscall ==
    (SyscallTrap /\ __exception_handler # NULL /\ Owners # {}) =>
        /\ Len(calls) = 1
        /\ calls[1].idx \in Owners
        /\ calls[1].fn = __syscall_handlers[calls[1].idx].handler
        /\ calls[1].type = "EXCEPTION_TYPE_SYSCALL"
        /\ calls[1].arg = Bits6to25(op.opcode)
        /\ regs.epc = Plus4(calls[1].epc_ret)
        /\ halt = "none"

\* C4 witness: [0,10] is registered, the trap has code 7, the handler left
\* the block alone and the EPC went from 0x80000400 to 0x80000404
C4_Witness ==
    /\ SyscallTrap
    /\ __syscall_handlers[0] =
          [handler |-> "syscall_handler_1", first_code |-> 0, last_code |-> 10]
    /\ Len(calls) = 1
    /\ calls[1].arg = 7
    /\ calls[1].epc_ret = [hi |-> 32768, lo |-> 1024]
    /\ regs.epc = [hi |-> 32768, lo |-> 1028]

\* C5: after a syscall trap taken with a handler in the slot and a code in
\* no registered range, exactly one call was made: the slot's handler, with
\* an exception_t of type critical described as "Unhandled syscall"; no
\* syscall handler was called and the dispatcher added nothing to the saved
\* EPC (it is the EPC the handler left; the default handler ends the process
\* with the block untouched).
C5_UnmatchedSyscall ==
    (SyscallTrap /\ __exception_handler # NULL /\ Owners = {}) =>
        /\ Len(calls) = 1
        /\ calls[1].fn = __exception_handler
        /\ calls[1].idx = -1
        /\ calls[1].type = "EXCEPTION_TYPE_CRITICAL"
        /\ calls[1].info = "Unhandled syscall"
        /\ regs.epc = calls[1].epc_ret
        /\ (__exception_handler = exception_default_handler =>
                regs = op.regs /\ halt = "abort")
        /\ (__exception_handler # exception_default_handler => halt = "none")

\* C5 witness: a range is registered, the code is outside it, the user handler
\* in the slot was called and the EPC is the one of the trap
C5_Witness ==
    /\ SyscallTrap
    /\ Registered(__syscall_handlers) # {}
    /\ Len(calls) = 1
    /\ calls[1].fn = "user_handler_1"
    /\ calls[1].info = "Unhandled syscall"
    /\ regs.epc = op.regs.epc

\* C6: the slot holds the default handler until the first call of
\* register_exception_handler and the argument of the last call after it;
\* a call returns the argument of the call before it, the first one the
\* default handler; a critical exception calls the handler in the slot, once,
\* with an exception_t of type critical.
C6_SlotReplaced ==
    /\ __exception_handler =
          (IF last_cb = "none" THEN exception_default_handler ELSE last_cb)
    /\ op.name = "register_exception_handler" =>
          /\ op.cb = last_cb
          /\ op.ret = (IF op.prev_cb = "none" THEN exception_default_handler
                       ELSE op.prev_cb)
    /\ (CriticalTrap /\ __exception_handler # NULL) =>
          /\ Len(calls) = 1
          /\ calls[1].fn = __exception_handler
          /\ calls[1].type = "EXCEPTION_TYPE_CRITICAL"

\* C6 witness: user_handler_2 was registered after user_handler_1, and the
\* call returned user_handler_1
C6_Witness ==
    /\ op.name = "register_exception_handler"
    /\ op.prev_cb = "user_handler_1"
    /\ op.cb = "user_handler_2"
    /\ op.ret = "user_handler_1"
    /\ __exception_handler = "user_handler_2"

\* C7: a critical exception taken with an empty slot calls nothing and
\* changes nothing: the register block, the slot and the syscall table are
\* as they were, and the process goes on.
C7_NullSlotNoOp ==
    (CriticalTrap /\ pre.__exception_handler = NULL) =>
        /\ calls = <<>>
        /\ regs = op.regs
        /\ Registry = pre
        /\ halt = "none"
        /\ stack = <<>>

\* C7 witness: register_exception_handler(NULL), then a critical exception,
\* with a syscall handler registered
C7_Witness ==
    /\ CriticalTrap
    /\ last_cb = NULL
    /\ __exception_handler = NULL
    /\ Registered(__syscall_handlers) # {}
    /\ calls = <<>>

\* C8: the registered ranges are pairwise disjoint and each satisfies
\* first_code <= last_code <= 0xFFFFF; so no code has two entries, and a
\* syscall trap calls at most one syscall handler.
C8_RangesDisjoint ==
    /\ \A i \in Registered(__syscall_handlers) :
          /\ __syscall_handlers[i].first_code <= __syscall_handlers[i].last_code
          /\ __syscall_handlers[i].last_code <= 1048575
    /\ \A i, j \in Registered(__syscall_handlers) :
          i # j => Disjoint(__syscall_handlers[i], __syscall_handlers[j])
    /\ \A w \in OpcodeVals :
          Cardinality({ i \in Registered(__syscall_handlers) :
                          InRange(__syscall_handlers[i], Bits6to25(w)) }) <= 1
    /\ Cardinality({ k \in 1 .. Len(calls) : calls[k].idx >= 0 }) <= 1

\* C8 witness: the table is full, and a rejected registration has ended the
\* process
C8_Witness ==
    /\ Cardinality(Registered(__syscall_handlers)) = 4
    /\ halt = "assertf: Syscall handler already registered"

RegisterCall == op.name = "register_syscall_handler"

NewRange == [first_code |-> op.first_code, last_code |-> op.last_code]

\* what the claim says is accepted, on the table as it was before the call
Acceptable(table) ==
    /\ op.first_code <= op.last_code
    /\ op.first_code <= 1048575
    /\ op.last_code <= 1048575
    /\ \A i \in Registered(table) : Disjoint(table[i], NewRange)
    /\ Cardinality(Registered(table)) < 4

\* C9: a call of register_syscall_handler with a handler returns, with the
\* range in the table, exactly when first_code <= last_code, both are at
\* most 0xFFFFF, the range meets no registered range and fewer than 4
\* handlers are registered; otherwise an assertf ends the process.
C9_AcceptedIff ==
    (RegisterCall /\ op.handler # NULL) =>
        /\ halt = "none" <=> Acceptable(pre.__syscall_handlers)
        /\ halt = "none" =>
              \E i \in TableIndex :
                  __syscall_handlers[i] =
                      [handler |-> op.handler, first_code |-> op.first_code,
                       last_code |-> op.last_code]

\* C9 witness: [0,10] then [11,20] were both accepted
C9_Witness ==
    /\ RegisterCall
    /\ halt = "none"
    /\ op.first_code = 11
    /\ op.last_code = 20
    /\ __syscall_handlers[0].handler # NULL
    /\ __syscall_handlers[0].first_code = 0
    /\ __syscall_handlers[0].last_code = 10
    /\ __syscall_handlers[1].handler # NULL
    /\ __syscall_handlers[1].first_code = 11

\* C10: a call of register_syscall_handler that an assertf ended left the
\* table and the slot as they were; one that returned left the slot alone
\* and wrote one entry, which was empty, and with a handler given that entry
\* changed.
C10_RegisterFrame ==
    RegisterCall =>
        /\ __exception_handler = pre.__exception_handler
        /\ halt # "none" => __syscall_handlers = pre.__syscall_handlers
        /\ halt = "none" =>
              \E i \in TableIndex :
                  /\ pre.__syscall_handlers[i].handler = NULL
                  /\ \A j \in TableIndex \ {i} :
                        __syscall_handlers[j] = pre.__syscall_handlers[j]
                  /\ op.handler # NULL =>
                        __syscall_handlers[i] # pre.__syscall_handlers[i]

\* C10 witness: [0,10] and [11,20] are registered and [5,15] was rejected
C10_Witness ==
    /\ RegisterCall
    /\ op.first_code = 5
    /\ op.last_code = 15
    /\ halt = "assertf: Syscall handler already registered"
    /\ __syscall_handlers[0].first_code = 0
    /\ __syscall_handlers[0].last_code = 10
    /\ __syscall_handlers[1].first_code = 11
    /\ __syscall_handlers[1].last_code = 20
    /\ Cardinality(Registered(__syscall_handlers)) = 2


\* ------------------------------------------------------------------------
\* Properties of the classifier (SpecClassify)

\* the register block has been classified
Classified == op.name \in {"__fetch_regs", "__exception_dump_header"}

\* the header of the classified exception has been written
HeaderWritten == op.name = "__exception_dump_header"

\* bit 31 of the Cause register: the exception was taken in a branch delay slot
BranchDelay(cr) == cr.hi >= 32768

\* the fault address of the block: X + 4 modulo 2^32 in a branch delay slot,
\* X otherwise
FaultAddress == IF BranchDelay(regs.cr) THEN Plus4(regs.epc) ELSE regs.epc

\* C11: for every saved EPC X and every Cause, the address printed in the
\* header is X + 4 (modulo 2^32) when the branch-delay flag is set and X
\* when it is clear, and the classifier compares BadVAddr with that same
\* address: a load/fetch TLB miss or address error is reported as a fault
\* of the program counter exactly when BadVAddr equals it.
C11_AdjustedFaultAddress ==
    /\ HeaderWritten => out[Len(out)].pc = FaultAddress
    /\ (Classified /\ op.e.code = EXCEPTION_CODE_TLB_LOAD_I_MISS) =>
          (op.e.info = "Invalid program counter address" <=> op.badvaddr = FaultAddress)
    /\ (Classified /\ op.e.code = EXCEPTION_CODE_LOAD_I_ADDRESS_ERROR) =>
          (op.e.info = "Misaligned program counter address"
              <=> op.badvaddr = FaultAddress)

\* C11 witness: a fetch TLB miss in the delay slot of a branch at 0xFFFFFFFC:
\* the address wraps to 0, which is BadVAddr, and the header prints 0
C11_Witness ==
    /\ HeaderWritten
    /\ BranchDelay(regs.cr)
    /\ regs.epc = Word(65535, 65532)
    /\ op.badvaddr = Word(0, 0)
    /\ op.e.code = EXCEPTION_CODE_TLB_LOAD_I_MISS
    /\ op.e.info = "Invalid program counter address"
    /\ out[Len(out)].pc = Word(0, 0)

\* an address below 128
Below128(w) == w.hi = 0 /\ w.lo <= 127

TlbMiss == Classified /\ op.e.code \in {EXCEPTION_CODE_TLB_LOAD_I_MISS,
                                         EXCEPTION_CODE_TLB_STORE_MISS}

\* the null-pointer / invalid-address message of a TLB miss
TlbMissMessage(code, addr) ==
    IF code = EXCEPTION_CODE_TLB_LOAD_I_MISS
        THEN (IF Below128(addr) THEN "NULL pointer dereference (read)"
              ELSE "Read from invalid memory address")
        ELSE (IF Below128(addr) THEN "NULL pointer dereference (write)"
              ELSE "Write to invalid memory address")

\* C12 as stated: for every TLB miss, load/fetch or store, and every EPC,
\* branch-delay flag and faulting address, the description is the
\* null-pointer message when the address is below 128 and the
\* invalid-address message when it is 128 or more
C12_NullPointerHeuristic ==
    TlbMiss => op.e.info = TlbMissMessage(op.e.code, op.badvaddr)

\* C12 (amended): the heuristic holds for every store miss, and for every
\* load/fetch miss whose faulting address differs from the adjusted fault
\* address; a load/fetch miss at the fault address itself is reported as an
\* invalid program counter, whatever the address. Address 128 is generic.
C12_NullPointerUnlessPc ==
    TlbMiss =>
        IF op.e.code = EXCEPTION_CODE_TLB_LOAD_I_MISS /\ op.badvaddr = FaultAddress
            THEN op.e.info = "Invalid program counter address"
            ELSE op.e.info = TlbMissMessage(op.e.code, op.badvaddr)

\* C12 witness: a load miss at address exactly 128, away from the program
\* counter, classified as a read from an invalid address
C12_Witness ==
    /\ Classified
    /\ op.e.code = EXCEPTION_CODE_TLB_LOAD_I_MISS
    /\ op.badvaddr = Word(0, 128)
    /\ op.badvaddr # FaultAddress
    /\ op.e.info = "Read from invalid memory address"

\* the cause flag (a single bit) is set in the FCR31 value
FlagSet(fc31, flag) ==
    IF flag.hi # 0 THEN (fc31.hi \div flag.hi) % 2 = 1
                   ELSE (fc31.lo \div flag.lo) % 2 = 1

\* the five causes with a description of their own, in priority order
FpPriority ==
    << [flag |-> C1_CAUSE_DIV_BY_0, name |-> "Floating point divide by zero"],
       [flag |-> C1_CAUSE_INVALID_OP, name |-> "Floating point invalid operation"],
       [flag |-> C1_CAUSE_OVERFLOW, name |-> "Floating point overflow"],
       [flag |-> C1_CAUSE_UNDERFLOW, name |-> "Floating point underflow"],
       [flag |-> C1_CAUSE_INEXACT_OP, name |-> "Floating point inexact operation"] >>

FpException == Classified /\ op.e.code = EXCEPTION_CODE_FLOATING_POINT

\* C13: the description of a floating-point exception names the first flag
\* set in FCR31 in the order divide-by-zero, invalid operation, overflow,
\* underflow, inexact; with none of the five set (also when only the
\* not-implemented flag is set) it is the generic floating-point fault.
C13_FpCausePriority ==
    FpException =>
        LET set == { i \in 1 .. 5 : FlagSet(regs.fc31, FpPriority[i].flag) } IN
        IF set = {}
            THEN op.e.info = "Generic floating point"
            ELSE \E i \in set :
                    /\ \A j \in set : i <= j
                    /\ op.e.info = FpPriority[i].name

\* C13 witness: invalid operation, overflow, inexact and not-implemented are
\* set, divide-by-zero is clear: the description is invalid operation
C13_Witness ==
    /\ FpException
    /\ ~FlagSet(regs.fc31, C1_CAUSE_DIV_BY_0)
    /\ FlagSet(regs.fc31, C1_CAUSE_INVALID_OP)
    /\ FlagSet(regs.fc31, C1_CAUSE_OVERFLOW)
    /\ FlagSet(regs.fc31, C1_CAUSE_INEXACT_OP)
    /\ FlagSet(regs.fc31, C1_CAUSE_NOT_IMPLEMENTED)
    /\ op.e.info = "Floating point invalid operation"

\* the descriptions the classifier gives for each code, over every register
\* block with that code and every BadVAddr
DescriptionsOf ==
    [c \in 0 .. 31 |->
        { __get_exception_name(c, r, b) :
            r \in { x \in ClassifyBlocks : C0_GET_CAUSE_EXC_CODE(x.cr) = c },
            b \in ClassifyBadVAddrVals }]

\* the codes whose description is refined from the register block
RefinedCodes == {1, 2, 3, 4, 5, 8, 15}

\* the codes without a meaning of their own
ReservedCodes == {14} \cup (16 .. 22) \cup (24 .. 31)

\* C14 as stated: the description is non-empty and code-specific (no other
\* code ever gets it), and a code with refinement logic never gets its
\* generic table entry
C14_CodeSpecific ==
    Classified =>
        /\ op.e.info # ""
        /\ \A c \in (0 .. 31) \ {op.e.code} : op.e.info \notin DescriptionsOf[c]
        /\ op.e.code \in RefinedCodes => op.e.info # exceptionMap[op.e.code]

\* C14 (amended): the description is non-empty; a code with refinement logic
\* never gets its generic table entry; and two distinct codes share a
\* description only when both are reserved codes (14, 16..22, 24..31), which
\* all get "Reserved".
C14_CodeSpecificButReserved ==
    Classified =>
        /\ op.e.info # ""
        /\ \A c \in (0 .. 31) \ {op.e.code} :
              op.e.info \in DescriptionsOf[c] =>
                  /\ c \in ReservedCodes
                  /\ op.e.code \in ReservedCodes
                  /\ op.e.info = "Reserved"
        /\ op.e.code \in ReservedCodes => op.e.info = "Reserved"
        /\ op.e.code \in RefinedCodes => op.e.info # exceptionMap[op.e.code]

\* C14 witness: code 14 is classified as "Reserved", the description code 31
\* gets as well
C14_Witness ==
    /\ Classified
    /\ op.e.code = 14
    /\ op.e.info = "Reserved"
    /\ "Reserved" \in DescriptionsOf[31]


\* ------------------------------------------------------------------------
\* Properties of the formatter (SpecDump)

\* the callback calls of one dump, in order
CallsOf(kind) == SelectSeq(out, LAMBDA x : x.cb = kind)

FprDumped == "fpr" \in op.dumped
GprDumped == "gpr" \in op.dumped

\* the class of a single by its bit fields: sign bit 31, exponent bits
\* 23..30, mantissa bits 0..22 of the low 32 bits of v
SingleClass(v) ==
    LET sign == v[3] \div 32768
        exponent == (v[3] % 32768) \div 128
        mantissa_zero == v[3] % 128 = 0 /\ v[4] = 0
    IN  IF exponent = 0 /\ ~mantissa_zero THEN "Denormal"
        ELSE IF exponent = 255 /\ ~mantissa_zero THEN "NaN"
        ELSE IF exponent = 255 /\ sign = 0 THEN "+Infinity"
        ELSE IF exponent = 255 /\ sign = 1 THEN "-Infinity"
        ELSE "Normal"

\* the class of a double by its bit fields: sign bit 63, exponent bits
\* 52..62, mantissa bits 0..51
DoubleClass(v) ==
    LET sign == v[1] \div 32768
        exponent == (v[1] % 32768) \div 16
        mantissa_zero == v[1] % 16 = 0 /\ v[2] = 0 /\ v[3] = 0 /\ v[4] = 0
    IN  IF exponent = 0 /\ ~mantissa_zero THEN "Denormal"
        ELSE IF exponent = 2047 /\ ~mantissa_zero THEN "NaN"
        ELSE IF exponent = 2047 /\ sign = 0 THEN "+Infinity"
        ELSE IF exponent = 2047 /\ sign = 1 THEN "-Infinity"
        ELSE "Normal"

\* the text tags a value of the class: a fixed tag, or the decimal rendering
\* with the given format for a Normal value
Tagged(text, class, format) ==
    CASE class = "Denormal" -> text.tag = "<Denormal>"
      [] class = "NaN" -> text.tag = "<NaN>"
      [] class = "+Infinity" -> text.tag = "<+Inf>"
      [] class = "-Infinity" -> text.tag = "<-Inf>"
      [] class = "Normal" -> text.tag = format

\* C15: for every FPR value, the single interpretation (low 32 bits) and the
\* double interpretation each carry exactly the tag of the class their bit
\* fields determine: Denormal iff exponent zero and mantissa non-zero, NaN
\* iff exponent all-ones and mantissa non-zero, +Infinity / -Infinity iff
\* exponent all-ones, mantissa zero and sign 0 / 1, Normal (a decimal
\* rendering) otherwise, both zeros included.
C15_FprClassification ==
    FprDumped =>
        LET cbs == CallsOf("fpr") IN
        /\ Len(cbs) = 32
        /\ \A k \in 1 .. 32 :
              /\ cbs[k].regname = k - 1
              /\ Tagged(cbs[k].single, SingleClass(regs.fpr[k - 1]), "%.12g")
              /\ Tagged(cbs[k].double, DoubleClass(regs.fpr[k - 1]), "%.17g")

\* C15 witness: registers 0..4 hold 0x7FC00000, 0x7F800000, 0xFF800000,
\* 0x00400000 and 0x3F800000 in their low halves and are tagged NaN, +Inf,
\* -Inf, Denormal and as a number; register 5 is +0.0 in both readings and a
\* number in both; with 0x7FF00000 above it, 0x7FC00000 is a double NaN
C15_Witness ==
    /\ FprDumped
    /\ \E b \in 0 .. 16 :
          LET cbs == CallsOf("fpr") IN
          /\ regs.fpr[b] = <<0, 0, 32704, 0>>      /\ cbs[b + 1].single.tag = "<NaN>"
          /\ regs.fpr[b + 1] = <<0, 0, 32640, 0>>  /\ cbs[b + 2].single.tag = "<+Inf>"
          /\ regs.fpr[b + 2] = <<0, 0, 65408, 0>>  /\ cbs[b + 3].single.tag = "<-Inf>"
          /\ regs.fpr[b + 3] = <<0, 0, 64, 0>>     /\ cbs[b + 4].single.tag = "<Denormal>"
          /\ regs.fpr[b + 4] = <<0, 0, 16256, 0>>  /\ cbs[b + 5].single.tag = "%.12g"
          /\ regs.fpr[b + 5] = <<0, 0, 0, 0>>      /\ cbs[b + 6].single.tag = "%.12g"
          /\ cbs[b + 6].double.tag = "%.17g"
          /\ cbs[b + 4].double.tag = "<Denormal>"
          /\ regs.fpr[b + 16] = <<32752, 0, 32704, 0>>
          /\ cbs[b + 17].double.tag = "<NaN>"

\* the n-th of the four fields of a rendered value, and their separators
Field(t, n) == SubSeq(t, 5 * (n - 1) + 1, 5 * (n - 1) + 4)
FourFields(t) == Len(t) = 19 /\ t[5] = " " /\ t[10] = " " /\ t[15] = " "

\* the placeholder of a high field
Placeholder == <<"-", "-", "-", "-">>

\* the value of a hex digit, -1 for any other character
DigitValue(ch) ==
    CASE ch = "0" -> 0 [] ch = "1" -> 1 [] ch = "2" -> 2 [] ch = "3" -> 3
      [] ch = "4" -> 4 [] ch = "5" -> 5 [] ch = "6" -> 6 [] ch = "7" -> 7
      [] ch = "8" -> 8 [] ch = "9" -> 9 [] ch = "a" -> 10 [] ch = "b" -> 11
      [] ch = "c" -> 12 [] ch = "d" -> 13 [] ch = "e" -> 14 [] ch = "f" -> 15
      [] OTHER -> -1

IsHexGroup(f) == Len(f) = 4 /\ \A i \in 1 .. 4 : DigitValue(f[i]) >= 0

\* a hex group read back
ParseHexGroup(f) ==
    4096 * DigitValue(f[1]) + 256 * DigitValue(f[2]) + 16 * DigitValue(f[3])
    + DigitValue(f[4])

\* a rendered value read back: the low 32 bits are sign-extended when the
\* high fields are the placeholder
Reparse(t) ==
    LET g1 == ParseHexGroup(Field(t, 3))
        g0 == ParseHexGroup(Field(t, 4))
    IN  IF Field(t, 1) = Placeholder
            THEN LET ext == IF g1 >= 32768 THEN 65535 ELSE 0 IN <<ext, ext, g1, g0>>
            ELSE <<ParseHexGroup(Field(t, 1)), ParseHexGroup(Field(t, 2)), g1, g0>>

\* v is the sign extension of its low 32 bits
IsSignExtension(v) ==
    /\ v[1] = v[2]
    /\ v[1] = (IF v[3] >= 32768 THEN 65535 ELSE 0)

\* the value of the k-th register dumped: the 32 GPRs in index order, then
\* HI, then LO
DumpedValue(k) ==
    IF k <= 32 THEN regs.gpr[k - 1] ELSE IF k = 33 THEN regs.hi ELSE regs.lo

\* C16: __exception_dump_gpr calls the callback exactly 34 times, for the 32
\* GPRs in index order, then HI, then LO; a value that is the sign extension
\* of its low 32 bits is rendered as two placeholder fields and the two hex
\* groups of the low 32 bits, any other value as its four hex groups; and
\* reading the groups back (sign-extending under the placeholder) gives the
\* value again.
C16_GprRoundTrip ==
    GprDumped =>
        LET cbs == CallsOf("gpr") IN
        /\ Len(cbs) = 34
        /\ \A k \in 1 .. 34 :
              LET v == DumpedValue(k)
                  t == cbs[k].value
              IN  /\ cbs[k].regname = k - 1
                  /\ FourFields(t)
                  /\ IsHexGroup(Field(t, 3)) /\ ParseHexGroup(Field(t, 3)) = v[3]
                  /\ IsHexGroup(Field(t, 4)) /\ ParseHexGroup(Field(t, 4)) = v[4]
                  /\ IF IsSignExtension(v)
                        THEN Field(t, 1) = Placeholder /\ Field(t, 2) = Placeholder
                        ELSE /\ IsHexGroup(Field(t, 1)) /\ ParseHexGroup(Field(t, 1)) = v[1]
                             /\ IsHexGroup(Field(t, 2)) /\ ParseHexGroup(Field(t, 2)) = v[2]
                  /\ Reparse(t) = v

\* C16 witness: HI holds 0xFFFFFFFF80000000 and is rendered with the
\* placeholder as the 33rd call; a GPR holds 0x0000000080000000, whose low
\* half is the same, and is rendered in full
C16_Witness ==
    /\ GprDumped
    /\ regs.hi = <<65535, 65535, 32768, 0>>
    /\ CallsOf("gpr")[33].value =
          <<"-", "-", "-", "-", " ", "-", "-", "-", "-", " ",
            "8", "0", "0", "0", " ", "0", "0", "0", "0">>
    /\ \E k \in 1 .. 32 :
          /\ regs.gpr[k - 1] = <<0, 0, 32768, 0>>
          /\ CallsOf("gpr")[k].value =
                <<"0", "0", "0", "0", " ", "0", "0", "0", "0", " ",
                  "8", "0", "0", "0", " ", "0", "0", "0", "0">>


\* ------------------------------------------------------------------------
\* Further properties of dispatch (Spec)

\* C17 as stated: the outcome of a matched syscall trap does not depend on
\* the unhandled-exception slot: whatever the slot holds, also NULL, a
\* syscall trap whose code lies in a registered range calls that range's
\* handler exactly once and leaves the saved EPC advanced by 4
C17_MatchedSyscallAnySlot ==
    (SyscallTrap /\ Owners # {}) =>
        /\ Len(calls) = 1
        /\ calls[1].idx \in Owners
        /\ calls[1].arg = Bits6to25(op.opcode)
        /\ regs.epc = Plus4(calls[1].epc_ret)

\* the saved EPC as the last handler called left it, or as the trampoline
\* saved it when no handler was called
EpcLeft == IF calls = <<>> THEN op.regs.epc ELSE calls[Len(calls)].epc_ret

\* C20: a call of __onCriticalException or __onSyscallException leaves the
\* unhandled-exception slot and every syscall table entry as they were; Cause
\* and FCR31 of the register block are as the trampoline saved them; the
\* saved EPC is what the handlers left, plus 4 exactly when a syscall handler
\* was called, and the critical entry adds nothing to it.
C20_DispatchFrame ==
    (SyscallTrap \/ CriticalTrap) =>
        /\ Registry = pre
        /\ regs.cr = op.regs.cr
        /\ regs.fc31 = op.regs.fc31
        /\ IF SyscallTrap /\ calls # <<>> /\ calls[1].type = "EXCEPTION_TYPE_SYSCALL"
              THEN regs.epc = Plus4(EpcLeft)
              ELSE regs.epc = EpcLeft

\* C20 witness: with two ranges registered and a user handler in the slot, a
\* critical exception was dispatched to that handler, which set the saved
\* EPC to 0xFFFFFFFC; the entry point returned with that EPC
C20_Witness ==
    /\ CriticalTrap
    /\ Cardinality(Registered(__syscall_handlers)) = 2
    /\ __exception_handler \in UserHandlers
    /\ Registry = pre
    /\ Len(calls) = 1
    /\ op.regs.epc = Word(32768, 1024)
    /\ calls[1].epc_ret = Word(65535, 65532)
    /\ regs.epc = Word(65535, 65532)


\* ------------------------------------------------------------------------
\* Further properties of the default handler (SpecDefault)

\* what the k-th active call of the default handler has written
OutOf(k) == SelectSeq(out, LAMBDA x : x.call = k)

\* the items of one kind among them
ItemsOf(k, item) == SelectSeq(OutOf(k), LAMBDA x : x.text.item = item)

\* debug_exception has returned in the k-th call (debug build)
Dumped(k) == ~ndebug /\ stack[k].pc # "debug_exception"

\* the process was ended by the innermost call of the handler, debug build
EndedInHandler == ~ndebug /\ halt = "abort" /\ stack # <<>>

\* all 34 GPR/HI/LO values, all 32 floating-point registers of call k
GprWritten(k) == Len(ItemsOf(k, "GPR")) = 1 /\ ItemsOf(k, "GPR")[1].text.lines = 34
FprWritten(k) == Len(ItemsOf(k, "FPR")) = 1 /\ ItemsOf(k, "FPR")[1].text.lines = 32

DumpFirst(k) ==
    /\ Len(OutOf(k)) >= 2
    /\ OutOf(k)[1].text.item = "header"
    /\ OutOf(k)[2].text.item = "GPR"

\* the backtrace of call k has been written, after the dump
BacktraceDone(k) == OutOf(k)[Len(OutOf(k))].text.item = "backtrace"

\* out is an initial part of out'
OutKept == Len(out) <= Len(out') /\ SubSeq(out', 1, Len(out)) = out

\* C19: in every execution of the debug build, a call that is in its
\* backtrace step has written the header and the register dump and no
\* backtrace yet, and the flag is set; a call that is at the inspector
\* hand-off or beyond has its backtrace written after the dump and was
\* entered with the flag clear; the flag is cleared only by the return of the
\* backtrace; and nothing written is ever lost, whatever faults.
C19_DefaultHandlerOrder ==
    /\ [](\A k \in Frames :
            /\ (~ndebug /\ stack[k].pc = "backtrace") =>
                  /\ DumpFirst(k)
                  /\ ItemsOf(k, "backtrace") = <<>>
                  /\ backtrace_exception
            /\ (~ndebug /\ stack[k].pc \in {"inspector", "abort"}) =>
                  /\ DumpFirst(k)
                  /\ BacktraceDone(k)
                  /\ ~stack[k].flag_at_entry)
    /\ [][/\ OutKept
          /\ (backtrace_exception /\ ~backtrace_exception') =>
                /\ Top.pc = "backtrace"
                /\ Len(stack') = Len(stack)
                /\ stack'[Len(stack')].pc = "inspector"]_vars

\* C19 witness: the backtrace of the first call faulted and the process was
\* ended at the guard of the second call; the header and the register dump
\* of the first call are still the first things in the stream
C19_Witness ==
    /\ halt = "abort"
    /\ Len(stack) = 2
    /\ stack[1].pc = "backtrace"
    /\ backtrace_exception
    /\ Len(out) >= 4
    /\ out[1].call = 1 /\ out[1].text.item = "header"
    /\ out[2].call = 1 /\ out[2].text.item = "GPR"
    /\ ItemsOf(1, "backtrace") = <<>>
    /\ DumpFirst(2)


\* ------------------------------------------------------------------------
\* Properties of the syscall decoding (SpecDecode)

\* the calls of syscall handlers that the trap made
SyscallCalls == SelectSeq(calls, LAMBDA c : c.type = "EXCEPTION_TYPE_SYSCALL")

\* C21: for every instruction word w at the saved (unadjusted) EPC, the code
\* every syscall handler is called with is (w div 2^6) mod 2^20, which lies
\* in 0 .. 0xFFFFF, whatever the bits of w outside the field; the entries
\* called are the registered entries whose range holds that code; and the
\* syscall instruction of any code c decodes to c.
C21_SyscallCodeDecoding ==
    (SyscallTrap /\ __exception_handler # NULL) =>
        /\ \A k \in 1 .. Len(SyscallCalls) :
              /\ SyscallCalls[k].arg = Bits6to25(op.opcode)
              /\ SyscallCalls[k].arg \in 0 .. 1048575
        /\ { SyscallCalls[k].idx : k \in 1 .. Len(SyscallCalls) } = Owners
        /\ \A c \in DecodeCodes :
              (op.opcode = SyscallOpcode(c) /\ SyscallCalls # <<>>) =>
                  SyscallCalls[1].arg = c

\* C21 witness: the word 0xFFFFFFFF decodes to 0xFFFFF and the handler of
\* the range [0xFFFFF, 0xFFFFF] is called with it
C21_Witness ==
    /\ SyscallTrap
    /\ op.opcode = Word(65535, 65535)
    /\ Len(calls) = 1
    /\ calls[1].idx = 3
    /\ __syscall_handlers[3].first_code = 1048575
    /\ calls[1].arg = 1048575


\* ------------------------------------------------------------------------
\* The shape of the syscall table (Spec)

\* the number of handlers registered in a table
Count(table) == Cardinality(Registered(table))

\* the registered entries of a table whose range holds the code
Dispatching(table, c) == { i \in Registered(table) : InRange(table[i], c) }

\* codes in and between the ranges that are registered
ShapeCodes == {0, 5, 10, 11, 15, 20, 21, 22, 1048574, 1048575}

\* C22: in every state the entries with a handler are the first entries of
\* the table, with no gap; a registration that returned with a handler put
\* it right behind them and left them as they were, after every one of them
\* was found not to meet the new range; a registration with a null handler
\* that returned left the number of handlers, every registered entry and
\* the entries dispatched to for every code as they were.
C22_TableShape ==
    /\ Registered(__syscall_handlers) = 0 .. (Count(__syscall_handlers) - 1)
    /\ (RegisterCall /\ halt = "none" /\ op.handler # NULL) =>
          LET n == Count(pre.__syscall_handlers) IN
          /\ Count(__syscall_handlers) = n + 1
          /\ __syscall_handlers[n].handler = op.handler
          /\ __syscall_handlers[n].first_code = op.first_code
          /\ __syscall_handlers[n].last_code = op.last_code
          /\ \A i \in 0 .. (n - 1) :
                /\ __syscall_handlers[i] = pre.__syscall_handlers[i]
                /\ Disjoint(__syscall_handlers[i], NewRange)
    /\ (RegisterCall /\ halt = "none" /\ op.handler = NULL) =>
          /\ Count(__syscall_handlers) = Count(pre.__syscall_handlers)
          /\ \A i \in Registered(pre.__syscall_handlers) :
                __syscall_handlers[i] = pre.__syscall_handlers[i]
          /\ \A c \in ShapeCodes :
                Dispatching(__syscall_handlers, c) = Dispatching(pre.__syscall_handlers, c)

\* C22 witness: with [21,21] registered, a null handler was registered for
\* [5,15]: the bounds went into entry 1, which is still free, and one
\* handler is registered as before
C22_Witness ==
    /\ RegisterCall
    /\ halt = "none"
    /\ op.handler = NULL
    /\ op.first_code = 5
    /\ op.last_code = 15
    /\ __syscall_handlers[0] =
          [handler |-> "syscall_handler_1", first_code |-> 21, last_code |-> 21]
    /\ __syscall_handlers[1] = [handler |-> NULL, first_code |-> 5, last_code |-> 15]
    /\ pre.__syscall_handlers[1] = EmptyEntry
    /\ Count(__syscall_handlers) = 1

=============================================================================
